---------------------------- MODULE Spec2Model ----------------------------
(***************************************************************************)
(* Model of the "Calculate Coverage" notebook (src/unnamed/part_000):      *)
(* UTM zone selection, projection selection, coverage-grid sizing, the     *)
(* overlap generator, the rasterize-and-accumulate loop, and the order in  *)
(* which the notebook's cells run; of create_poll_and_download in the      *)
(* Orders notebook; and of the activation loop of the UDM2 notebook.       *)
(*                                                                         *)
(* Lengths are whole meters.  Latitudes and longitudes of centroids are    *)
(* counted in 1/DegDen of a degree.  Shapes are finite sets of lattice     *)
(* squares, each named by its lower-left corner.                           *)
(***************************************************************************)
EXTENDS Integers, Sequences, FiniteSets, TLC

VARIABLES
    zcall,      \* the last call of _get_utm_zone: its centroid and outcome
    pcall,      \* the last pair of calls of get_utm_projection_fcn
    dcall,      \* the last call of get_coverage_dimensions: bounds and outcome
    ogen,       \* the generator object get_overlap_shapes_utm returned
    olist,      \* what list(...) has collected from ogen so far
    cov,        \* the frame of the running call of calculate_coverage
    pc,         \* the notebook cell that runs next ("Run All"), or how the run ended
    names,      \* names bound in the kernel that the notebook itself never binds
    env,        \* the notebook's global variables
    pending,    \* the catalog request being awaited, or "none"
    log,        \* catalog calls issued, coverage calls started, the error raised
    err,        \* the exception that ended the run, or "none"
    run1,       \* the globals the first "Run All" left, once a second has begun
    ord,        \* the Orders notebook: the coroutine, the status bar, the service
    udm         \* the UDM2 notebook: the cells, the client, the two assets

fnvars == <<zcall, pcall, dcall, ogen, olist, cov>>
nbvars == <<pc, names, env, pending, log, err>>
xvars == <<run1, ord, udm>>
vars == <<zcall, pcall, dcall, ogen, olist, cov, pc, names, env, pending, log, err,
          run1, ord, udm>>

NoCall == [fn |-> "none"]

\* Python's int(): truncation toward zero of the quotient n/d, d > 0.
IntTrunc(n, d) == IF n >= 0 THEN n \div d ELSE -((-n) \div d)

Min(a, b) == IF a <= b THEN a ELSE b

-----------------------------------------------------------------------------
(* Bounds of the model *)

\* centroid coordinates are multiples of 1/DegDen degree
DegDen == 2
\* get_coverage_dimensions is tried on every length 0 .. MaxSmallLen meters
MaxSmallLen == 40
\* ... and on every length within CapMargin meters of the 3000-cell cap
CapMargin == 10
\* the side of one lattice square of a shape, in projected meters
MetersPerStep == 9
\* the longest item list a catalog search returns in the model
MaxItems == 3
\* the longest item list a search of the demonstration returns in the model
MaxDemoItems == 1

-----------------------------------------------------------------------------
(* _get_utm_zone *)

\* the centroids tried: the whole globe, in steps of 1/DegDen degree
Lons == (-180 * DegDen) .. (180 * DegDen)
Lats == (-90 * DegDen) .. (90 * DegDen)

\* (mutant) the range test with the endpoints excluded from the valid range
ZoneRaises_closed(lat) == lat >= 84 * DegDen \/ lat <= -80 * DegDen

\* if lat > 84 or lat < -80: raise
ZoneRaises(lat) == lat > 84 * DegDen \/ lat < -80 * DegDen

\* zone = int((lon + 180) / 6 + 1)
ZoneNumber(lon) == IntTrunc(lon + 180 * DegDen + 6 * DegDen, 6 * DegDen)

\* hemisphere = 'north' if lat > 0 else 'south'
Hemisphere(lat) == IF lat > 0 THEN "north" ELSE "south"

\* the outcome of _get_utm_zone on a geometry whose centroid is (lon, lat)
get_utm_zone(lon, lat) ==
    IF ZoneRaises(lat)
    THEN [raised |-> TRUE]
    ELSE [raised |-> FALSE, zone |-> ZoneNumber(lon), hemisphere |-> Hemisphere(lat)]

\* the centroid of a call, in degrees, lies in [lo, hi] (strictly inside if strict)
LatWithin(lat, lo, hi, strict) ==
    IF strict THEN lo * DegDen < lat /\ lat < hi * DegDen
              ELSE lo * DegDen <= lat /\ lat <= hi * DegDen

CallZone ==
    /\ zcall = NoCall
    /\ \E lon \in Lons, lat \in Lats :
        /\ zcall' = [fn |-> "_get_utm_zone", lon |-> lon, lat |-> lat,
                     out |-> get_utm_zone(lon, lat)]
        /\ UNCHANGED <<pcall, dcall, ogen, olist, cov, nbvars, xvars>>

-----------------------------------------------------------------------------
(* get_coverage_dimensions *)

min_cell_size == 9
min_number_of_cells == 3
max_number_of_cells == 3000

min_dim == min_cell_size * min_number_of_cells

\* (mutant) _dim without the cap on the number of cells
dim_uncapped(length) == IntTrunc(length, min_cell_size)

\* def _dim(length): return min(int(length/min_cell_size), max_number_of_cells)
dim(length) == Min(IntTrunc(length, min_cell_size), max_number_of_cells)

\* (mutant) a box exactly at the minimum size is refused
get_coverage_dimensions_strict(bounds) ==
    LET width == bounds[3] - bounds[1]
        height == bounds[4] - bounds[2]
    IN  IF height <= min_dim THEN [raised |-> TRUE, why |-> "height"]
        ELSE IF width <= min_dim THEN [raised |-> TRUE, why |-> "width"]
        ELSE [raised |-> FALSE, dims |-> <<dim(height), dim(width)>>]

\* (mutant) the dimensions returned as [cols, rows]
get_coverage_dimensions_swapped(bounds) ==
    LET width == bounds[3] - bounds[1]
        height == bounds[4] - bounds[2]
    IN  IF height < min_dim THEN [raised |-> TRUE, why |-> "height"]
        ELSE IF width < min_dim THEN [raised |-> TRUE, why |-> "width"]
        ELSE [raised |-> FALSE, dims |-> <<dim(width), dim(height)>>]

\* bounds is <<minx, miny, maxx, maxy>>
get_coverage_dimensions(bounds) ==
    LET width == bounds[3] - bounds[1]
        height == bounds[4] - bounds[2]
    IN  IF height < min_dim THEN [raised |-> TRUE, why |-> "height"]
        ELSE IF width < min_dim THEN [raised |-> TRUE, why |-> "width"]
        ELSE [raised |-> FALSE, dims |-> <<dim(height), dim(width)>>]

\* the side lengths tried: the small ones, those around the cap, and 50 km
CapLen == min_cell_size * max_number_of_cells
DimLengths ==
    (0 .. MaxSmallLen) \cup ((CapLen - CapMargin) .. (CapLen + CapMargin)) \cup {50000}

\* lower-left corners tried: the origin and a UTM-like easting/northing
DimOrigins == {<<0, 0>>, <<500000, 3900000>>}

CallDims ==
    /\ dcall = NoCall
    /\ \E o \in DimOrigins, w \in DimLengths, h \in DimLengths :
        LET bounds == <<o[1], o[2], o[1] + w, o[2] + h>>
        IN  /\ dcall' = [fn |-> "get_coverage_dimensions", bounds |-> bounds,
                         out |-> get_coverage_dimensions(bounds)]
            /\ UNCHANGED <<zcall, pcall, ogen, olist, cov, nbvars, xvars>>

-----------------------------------------------------------------------------
(* get_utm_projection_fcn, _get_utm_projection *)

\* the EPSG code of WGS84 / UTM zone `zone`, northern or southern hemisphere
UtmEpsg(zone, hemisphere) == IF hemisphere = "north" THEN 32600 + zone ELSE 32700 + zone

\* def _get_utm_projection(geom): proj_str = "EPSG:32617"; return pyproj.Proj(proj_str)
get_utm_projection(geom) == 32617

\* partial(pyproj.transform, pyproj.Proj(init='EPSG:4326'), _get_utm_projection(geom)):
\* the transform is determined by its source and target systems
get_utm_projection_fcn(geom) == [src |-> 4326, dst |-> get_utm_projection(geom)]

\* geometries tried in pairs, each a Point (its own centroid): a coarse grid over the globe inside the valid
\* latitudes, and the notebook's own AOI (Cary, NC: about -79 E, 36 N)
ProjCentroids ==
    {<<lon, lat>> : lon \in {l \in Lons : l % (20 * DegDen) = 0},
                    lat \in {l \in Lats : l % (20 * DegDen) = 0 /\ ~ZoneRaises(l)}}
        \cup {<<-79 * DegDen, 36 * DegDen>>}

CallProjectionPair ==
    /\ pcall = NoCall
    /\ \E c1 \in ProjCentroids, c2 \in ProjCentroids :
        pcall' = [fn |-> "get_utm_projection_fcn", c1 |-> c1, c2 |-> c2,
                  out1 |-> get_utm_projection_fcn(c1),
                  out2 |-> get_utm_projection_fcn(c2)]
    /\ UNCHANGED <<zcall, dcall, ogen, olist, cov, nbvars, xvars>>

-----------------------------------------------------------------------------
(* Shapes.  A shape is a finite set of lattice squares <<i, j>>; in WGS84   *)
(* the lattice step is a small fixed angle, and the coordinate transform    *)
(* carries square <<i, j>> to the square of side MetersPerStep whose        *)
(* lower-left corner is the projected point.                                *)

Rect(x0, y0, w, h) == {<<x, y>> : x \in x0 .. (x0 + w - 1), y \in y0 .. (y0 + h - 1)}

SetMin(S) == CHOOSE m \in S : \A n \in S : m <= n
SetMax(S) == CHOOSE m \in S : \A n \in S : m >= n

\* pyproj.transform from EPSG:4326 to a UTM system, on one lattice point:
\* false easting 500000 m; false northing 10000000 m in the southern systems
ProjectPoint(proj_fcn, p) ==
    << 500000 + MetersPerStep * p[1],
       (IF proj_fcn.dst >= 32700 THEN 10000000 ELSE 0) + 3960000 + MetersPerStep * p[2] >>

\* shapely.ops.transform(proj_fcn, shape): a new shape, vertex by vertex
Transform(proj_fcn, shp) == {ProjectPoint(proj_fcn, p) : p \in shp}

\* .bounds of a projected shape: <<minx, miny, maxx, maxy>>
BoundsUtm(shp) ==
    << SetMin({p[1] : p \in shp}), SetMin({p[2] : p \in shp}),
       SetMax({p[1] : p \in shp}) + MetersPerStep, SetMax({p[2] : p \in shp}) + MetersPerStep >>

\* .area of a projected shape, in square meters
AreaUtm(shp) == Cardinality(shp) * MetersPerStep * MetersPerStep

\* a.intersection(b)
Intersection(a, b) == a \cap b

\* the AOIs tried: a square of 3 x 3 steps, a strip 2 steps wide, a strip
\* 2 steps high, and an L-shaped polygon in a 4 x 4 box
AoiSquare == Rect(0, 0, 3, 3)
AoiNarrow == Rect(0, 0, 2, 3)
AoiFlat == Rect(0, 0, 4, 2)
AoiEll == Rect(0, 0, 4, 2) \cup Rect(0, 2, 2, 2)
AoiShapes == {AoiSquare, AoiNarrow, AoiFlat, AoiEll}

\* the footprints tried: each AOI itself, one over the left columns only,
\* one far away, one covering everything
FootLeft == Rect(-1, -1, 3, 6)
FootFar == Rect(10, 10, 3, 3)
FootCover == Rect(-1, -1, 6, 6)
Footprints == AoiShapes \cup {FootLeft, FootFar, FootCover}

\* the items of a search result: each exposes its footprint as item['geometry']
Items == {[geometry |-> f] : f \in Footprints}

RECURSIVE SeqsUpTo(_, _)
SeqsUpTo(S, n) ==
    IF n = 0 THEN {<< >>}
    ELSE LET shorter == SeqsUpTo(S, n - 1)
         IN  shorter \cup {Append(q, x) : q \in {r \in shorter : Len(r) = n - 1}, x \in S}

ItemLists == SeqsUpTo(Items, MaxItems)

-----------------------------------------------------------------------------
(* get_overlap_shapes_utm: a generator *)

\* (mutant) the footprint is intersected as it came, in WGS84
calculate_overlap_unprojected(proj_fcn, aoi_shape_utm, item) ==
    Intersection(aoi_shape_utm, item.geometry)

\* def _calculate_overlap(item)
calculate_overlap(proj_fcn, aoi_shape_utm, item) ==
    LET footprint_shape == item.geometry
        footprint_shape_utm == Transform(proj_fcn, footprint_shape)
    IN  Intersection(aoi_shape_utm, footprint_shape_utm)

\* calling the generator function runs none of its body
get_overlap_shapes_utm(items, aoi_shape) ==
    [at |-> "created", items |-> items, aoi_shape |-> aoi_shape, i |-> 0]

\* the generator's frame once its first two statements have run
GenStarted(g) ==
    IF g.at # "created" THEN g
    ELSE LET proj_fcn == get_utm_projection_fcn(g.aoi_shape)
         IN  [at |-> "loop", items |-> g.items, aoi_shape |-> g.aoi_shape, i |-> 0,
              proj_fcn |-> proj_fcn,
              aoi_shape_utm |-> Transform(proj_fcn, g.aoi_shape)]

\* (mutant) items whose overlap is empty are passed over
GenResume_skip_empty(g) ==
    LET f == GenStarted(g)
        rest == {k \in (f.i + 1) .. Len(f.items) :
                    calculate_overlap(f.proj_fcn, f.aoi_shape_utm, f.items[k]) # {}}
    IN  IF rest # {}
        THEN [gen |-> [f EXCEPT !.i = SetMin(rest)], yielded |-> TRUE,
              value |-> calculate_overlap(f.proj_fcn, f.aoi_shape_utm, f.items[SetMin(rest)])]
        ELSE [gen |-> [f EXCEPT !.at = "exhausted", !.i = Len(f.items)], yielded |-> FALSE]

\* next(g): run the body up to the next yield, or to its end (StopIteration)
GenResume(g) ==
    LET f == GenStarted(g)
    IN  IF f.at = "loop" /\ f.i < Len(f.items)
        THEN [gen |-> [f EXCEPT !.i = f.i + 1], yielded |-> TRUE,
              value |-> calculate_overlap(f.proj_fcn, f.aoi_shape_utm, f.items[f.i + 1])]
        ELSE [gen |-> [f EXCEPT !.at = "exhausted"], yielded |-> FALSE]

\* list(g): every value the generator yields from here on, in order
RECURSIVE Drain(_)
Drain(g) ==
    LET r == GenResume(g)
    IN  IF r.yielded THEN <<r.value>> \o Drain(r.gen) ELSE << >>

CallOverlaps ==
    /\ ogen = NoCall
    /\ \E items \in ItemLists, aoi_shape \in AoiShapes :
        ogen' = get_overlap_shapes_utm(items, aoi_shape)
    /\ olist' = << >>
    /\ UNCHANGED <<zcall, pcall, dcall, cov, nbvars, xvars>>

\* one round of list(...)'s loop over the generator
OverlapNext ==
    /\ ogen # NoCall
    /\ ogen.at # "exhausted"
    /\ LET r == GenResume(ogen)
       IN  /\ ogen' = r.gen
           /\ olist' = IF r.yielded THEN Append(olist, r.value) ELSE olist
    /\ UNCHANGED <<zcall, pcall, dcall, cov, nbvars, xvars>>

-----------------------------------------------------------------------------
(* calculate_coverage *)

\* the cells of a grid of the given <<rows, cols>>: <<row, col>>, row 0 on top
GridCells(dimensions) == (0 .. (dimensions[1] - 1)) \X (0 .. (dimensions[2] - 1))

\* np.zeros(dimensions, dtype=np.uint16)
Zeros(dimensions) == [rc \in GridCells(dimensions) |-> 0]

\* Under transform = Affine(width, 0, mminx, 0, height, mmaxy), with
\* width = (mmaxx - mminx) / x_count and height = (mminy - mmaxy) / y_count,
\* the centre of cell <<r, c>> is (mminx + (c + 1/2) width, mmaxy + (r + 1/2) height).
\* Whether it falls in the square of side MetersPerStep at corner sq, with both
\* sides of each comparison multiplied by 2 x_count (or 2 y_count):
CentreInSquare(sq, rc, dimensions, bounds) ==
    LET y_count == dimensions[1]
        x_count == dimensions[2]
        cx == 2 * x_count * bounds[1] + (2 * rc[2] + 1) * (bounds[3] - bounds[1])
        cy == 2 * y_count * bounds[4] + (2 * rc[1] + 1) * (bounds[2] - bounds[4])
    IN  /\ 2 * x_count * sq[1] <= cx
        /\ cx < 2 * x_count * (sq[1] + MetersPerStep)
        /\ 2 * y_count * sq[2] <= cy
        /\ cy < 2 * y_count * (sq[2] + MetersPerStep)

\* The same test for a rectangle <<minx, miny, maxx, maxy>> given in meters
CentreInBox(box, rc, dimensions, bounds) ==
    LET y_count == dimensions[1]
        x_count == dimensions[2]
        cx == 2 * x_count * bounds[1] + (2 * rc[2] + 1) * (bounds[3] - bounds[1])
        cy == 2 * y_count * bounds[4] + (2 * rc[1] + 1) * (bounds[2] - bounds[4])
    IN  /\ 2 * x_count * box[1] <= cx
        /\ cx < 2 * x_count * box[3]
        /\ 2 * y_count * box[2] <= cy
        /\ cy < 2 * y_count * box[4]

\* a projected shape is a set of pieces: lattice squares <<x, y>> of side
\* MetersPerStep, or rectangles <<minx, miny, maxx, maxy>>
CentreInPiece(piece, rc, dimensions, bounds) ==
    IF Len(piece) = 2 THEN CentreInSquare(piece, rc, dimensions, bounds)
    ELSE CentreInBox(piece, rc, dimensions, bounds)

\* (mutant) the shape burnt with the value 2
Rasterize_burn2(overlap, dimensions, bounds) ==
    [rc \in GridCells(dimensions) |->
        IF \E sq \in overlap : CentreInPiece(sq, rc, dimensions, bounds) THEN 2 ELSE 0]

\* rfeatures.rasterize([shape], fill=0, default_value=1, out_shape=dimensions,
\* transform=transform): a cell is burnt when its centre lies in the shape
Rasterize(overlap, dimensions, bounds) ==
    [rc \in GridCells(dimensions) |->
        IF \E sq \in overlap : CentreInPiece(sq, rc, dimensions, bounds) THEN 1 ELSE 0]

\* (mutant) coverage = overlap_raster: the last raster replaces the sum
AddRaster_overwrite(coverage, raster) == raster

\* (mutant) the accumulator declared uint8
AddRaster_uint8(coverage, raster) == [rc \in DOMAIN coverage |-> (coverage[rc] + raster[rc]) % 256]

\* coverage += overlap_raster, in uint16
AddRaster(coverage, raster) == [rc \in DOMAIN coverage |-> (coverage[rc] + raster[rc]) % 65536]

\* the frame of calculate_coverage(overlaps, dimensions, bounds) on entering its
\* loop; bound holds the names bound in the kernel beyond the notebook's own
calculate_coverage(overlaps, dimensions, bounds, bound) ==
    [at |-> "loop", overlaps |-> overlaps, dimensions |-> dimensions, bounds |-> bounds,
     names |-> bound, k |-> 0, coverage |-> Zeros(dimensions)]

\* (mutant) the loop body without the is_empty test: rasterize refuses a list
\* that holds no valid geometry
CoverageStep_unguarded(f) ==
    IF f.k < Len(f.overlaps)
    THEN LET overlap == f.overlaps[f.k + 1]
         IN  IF "sgeom" \notin f.names
             THEN [f EXCEPT !.at = "raised", !.k = f.k + 1] @@ [error |-> "NameError"]
             ELSE IF overlap = {}
             THEN [f EXCEPT !.at = "raised", !.k = f.k + 1] @@ [error |-> "ValueError"]
             ELSE [f EXCEPT !.k = f.k + 1,
                     !.coverage = AddRaster(f.coverage,
                                            Rasterize(overlap, f.dimensions, f.bounds))]
    ELSE [f EXCEPT !.at = "returned"]

\* one round of `for overlap in overlaps:`, or the return after the last one.
\* sgeom is a name the notebook never imports: reading it raises NameError
\* unless the kernel binds it.
CoverageStep(f) ==
    IF f.k < Len(f.overlaps)
    THEN LET overlap == f.overlaps[f.k + 1]
         IN  IF overlap = {}
             THEN [f EXCEPT !.k = f.k + 1]
             ELSE IF "sgeom" \notin f.names
             THEN [f EXCEPT !.at = "raised", !.k = f.k + 1] @@ [error |-> "NameError"]
             ELSE [f EXCEPT !.k = f.k + 1,
                     !.coverage = AddRaster(f.coverage,
                                            Rasterize(overlap, f.dimensions, f.bounds))]
    ELSE [f EXCEPT !.at = "returned"]

\* the call run to its end
RECURSIVE CoverageRun(_)
CoverageRun(f) == IF f.at = "loop" THEN CoverageRun(CoverageStep(f)) ELSE f

\* the overlaps an AOI can have with the footprints tried
OverlapsOf(aoi_shape) ==
    LET proj_fcn == get_utm_projection_fcn(aoi_shape)
    IN  {calculate_overlap(proj_fcn, Transform(proj_fcn, aoi_shape), item) : item \in Items}

\* the grid sizes tried for an AOI: the notebook's low-resolution (6, 3), and
\* the size get_coverage_dimensions gives when it gives one
DimensionsFor(aoi_shape_utm) ==
    LET d == get_coverage_dimensions(BoundsUtm(aoi_shape_utm))
    IN  {<<6, 3>>} \cup (IF d.raised THEN {} ELSE {d.dims})

CallCoverage ==
    /\ cov = NoCall
    /\ \E aoi_shape \in AoiShapes, bound \in SUBSET {"sgeom"} :
        LET aoi_shape_utm == Transform(get_utm_projection_fcn(aoi_shape), aoi_shape)
        IN  \E overlaps \in SeqsUpTo(OverlapsOf(aoi_shape), MaxItems),
               dimensions \in DimensionsFor(aoi_shape_utm) :
                cov' = calculate_coverage(overlaps, dimensions, BoundsUtm(aoi_shape_utm), bound)
    /\ UNCHANGED <<zcall, pcall, dcall, ogen, olist, nbvars, xvars>>

CoverageNext ==
    /\ cov # NoCall
    /\ cov.at = "loop"
    /\ cov' = CoverageStep(cov)
    /\ UNCHANGED <<zcall, pcall, dcall, ogen, olist, nbvars, xvars>>

\* cl.search(..., limit=500): the most items one search yields
search_limit == 500

\* the longest results a search can give: search_limit items, all with the
\* same footprint
FullResults == {[k \in 1 .. search_limit |-> item] : item \in Items}

\* item_list = [i async for i in items];
\* overlaps = list(get_overlap_shapes_utm(item_list, aoi_shape)): the call
CallCappedOverlaps ==
    /\ ogen = NoCall
    /\ \E aoi_shape \in {AoiSquare, AoiEll}, item_list \in FullResults :
        ogen' = get_overlap_shapes_utm(item_list, aoi_shape)
    /\ olist' = << >>
    /\ UNCHANGED <<zcall, pcall, dcall, cov, nbvars, xvars>>

\* calculate_coverage(overlaps, dimensions, aoi_shape_utm.bounds) on the
\* collected list
CallCappedCoverage ==
    /\ ogen # NoCall
    /\ ogen.at = "exhausted"
    /\ cov = NoCall
    /\ \E bound \in SUBSET {"sgeom"}, dimensions \in DimensionsFor(ogen.aoi_shape_utm) :
        cov' = calculate_coverage(olist, dimensions, BoundsUtm(ogen.aoi_shape_utm), bound)
    /\ UNCHANGED <<zcall, pcall, dcall, ogen, olist, nbvars, xvars>>

\* Square AOIs given directly in projected meters, by the length of their side
ScenarioSides == {36, 90, 1000}
ScenarioMaxItems == 2

\* .bounds of the square AOI of the given side
SquareBounds(side) == <<500000, 3960000, 500000 + side, 3960000 + side>>

\* footprints in projected meters: one over the whole AOI, one over its left
\* half only, one that misses it
FootBoxWhole(side) == <<499900, 3959900, 500100 + side, 3960100 + side>>
FootBoxLeft(side) == <<499900, 3959900, 500000 + (side \div 2), 3960100 + side>>
FootBoxFar(side) == <<500200 + side, 3959900, 500300 + side, 3960100 + side>>
FootBoxes(side) == {FootBoxWhole(side), FootBoxLeft(side), FootBoxFar(side)}

\* aoi_shape_utm.intersection(footprint_shape_utm) of two rectangles
BoxOverlap(a, b) ==
    LET x0 == IF a[1] >= b[1] THEN a[1] ELSE b[1]
        y0 == IF a[2] >= b[2] THEN a[2] ELSE b[2]
        x1 == Min(a[3], b[3])
        y1 == Min(a[4], b[4])
    IN  IF x0 < x1 /\ y0 < y1 THEN {<<x0, y0, x1, y1>>} ELSE {}

\* dimensions = get_coverage_dimensions(aoi_shape_utm.bounds), then
\* calculate_coverage(overlaps, dimensions, aoi_shape_utm.bounds)
CallScenario ==
    /\ cov = NoCall
    /\ \E side \in ScenarioSides, bound \in SUBSET {"sgeom"} :
        LET bounds == SquareBounds(side)
            d == get_coverage_dimensions(bounds)
        IN  /\ ~d.raised
            /\ \E feet \in SeqsUpTo(FootBoxes(side), ScenarioMaxItems) :
                cov' = calculate_coverage([k \in 1 .. Len(feet) |-> BoxOverlap(bounds, feet[k])],
                                          d.dims, bounds, bound)
    /\ UNCHANGED <<zcall, pcall, dcall, ogen, olist, nbvars, xvars>>

-----------------------------------------------------------------------------
(* plot_coverage: the numbers it shows *)

\* the k-th smallest cell value of a grid, k = 1 ..
KthValue(coverage, k) ==
    SetMin({v \in {coverage[rc] : rc \in DOMAIN coverage} :
               Cardinality({rc \in DOMAIN coverage : coverage[rc] <= v}) >= k})

\* int(np.median(coverage)), coverage.min(), coverage.max()
plot_coverage(coverage) ==
    LET n == Cardinality(DOMAIN coverage)
        values == {coverage[rc] : rc \in DOMAIN coverage}
    IN  [median |-> IF n % 2 = 1 THEN KthValue(coverage, (n + 1) \div 2)
                    ELSE IntTrunc(KthValue(coverage, n \div 2)
                                    + KthValue(coverage, n \div 2 + 1), 2),
         ticks_min |-> SetMin(values),
         ticks_max |-> SetMax(values)]

-----------------------------------------------------------------------------
(* The notebook, cell after cell.  An exception in a cell ends the run. *)

\* names the notebook reads but never imports or assigns
UnimportedNames == {"data_filter", "sgeom"}

Raise(e) ==
    /\ pc' = "aborted"
    /\ err' = e
    /\ log' = Append(log, e)
    /\ pending' = "none"

\* a fresh kernel binds neither unimported name; a kernel that ran other
\* code before may bind either
KernelStart ==
    /\ pc = "kernel"
    /\ names' \in SUBSET UnimportedNames
    /\ pc' = "define_aoi"
    /\ UNCHANGED <<env, pending, log, err, fnvars, xvars>>

\* aoi_shape = shape(test_aoi_geom), for the AOI the user defined
CellDefineAoi ==
    /\ pc = "define_aoi"
    /\ \E aoi_shape \in AoiShapes : env' = [aoi_shape |-> aoi_shape] @@ env
    /\ pc' = "request"
    /\ UNCHANGED <<names, pending, log, err, fnvars, xvars>>

\* the filters are built with data_filter; then create_search is awaited
CellRequest ==
    /\ pc = "request"
    /\ IF "data_filter" \notin names
       THEN Raise("NameError") /\ UNCHANGED env
       ELSE /\ env' = [combined_filter |-> "and_filter"] @@ env
            /\ log' = Append(log, "create_search")
            /\ pending' = "create_search"
            /\ pc' = "request_await"
            /\ UNCHANGED err
    /\ UNCHANGED <<names, fnvars, xvars>>

CreateSearchReturns ==
    /\ pc = "request_await"
    /\ env' = [request |-> "calc_coverage_search"] @@ env
    /\ pending' = "none"
    /\ pc' = "project"
    /\ UNCHANGED <<names, log, err, fnvars, xvars>>

\* a failure of the catalog service is raised to the cell
CreateSearchFails ==
    /\ pc = "request_await"
    /\ Raise("CollaboratorError")
    /\ UNCHANGED <<names, env, fnvars, xvars>>

\* proj_fcn = get_utm_projection_fcn(aoi_shape)
\* aoi_shape_utm = shapely.ops.transform(proj_fcn, aoi_shape)
CellProject ==
    /\ pc = "project"
    /\ LET proj_fcn == get_utm_projection_fcn(env.aoi_shape)
       IN  env' = [proj_fcn |-> proj_fcn,
                   aoi_shape_utm |-> Transform(proj_fcn, env.aoi_shape)] @@ env
    /\ pc' = "dimensions"
    /\ UNCHANGED <<names, pending, log, err, fnvars, xvars>>

\* dimensions = get_coverage_dimensions(aoi_shape_utm)
CellDimensions ==
    /\ pc = "dimensions"
    /\ LET d == get_coverage_dimensions(BoundsUtm(env.aoi_shape_utm))
       IN  IF d.raised
           THEN Raise("DomainError") /\ UNCHANGED env
           ELSE /\ env' = [dimensions |-> d.dims] @@ env
                /\ pc' = "search"
                /\ UNCHANGED <<pending, log, err>>
    /\ UNCHANGED <<names, fnvars, xvars>>

\* items = await cl.search(..., limit=500)
CellSearch ==
    /\ pc = "search"
    /\ log' = Append(log, "search")
    /\ pending' = "search"
    /\ pc' = "search_await"
    /\ UNCHANGED <<names, env, err, fnvars, xvars>>

\* the await returns: items is bound to the iterator over the result
SearchResponds ==
    /\ pc = "search_await"
    /\ env' = [items |-> << >>] @@ env
    /\ pc' = "search_collect"
    /\ UNCHANGED <<names, pending, log, err, fnvars, xvars>>

\* [i async for i in items]: the iterator fetches and yields one more item;
\* env.items holds what it has yielded
SearchYields ==
    /\ pc = "search_collect"
    /\ Len(env.items) < MaxItems
    /\ \E item \in Items : env' = [items |-> Append(env.items, item)] @@ env
    /\ UNCHANGED <<pc, names, pending, log, err, fnvars, xvars>>

\* the iterator is exhausted: item_list = [...] is bound, the session closes
SearchReturns ==
    /\ pc = "search_collect"
    /\ env' = [item_list |-> env.items] @@ env
    /\ pending' = "none"
    /\ pc' = "overlaps"
    /\ UNCHANGED <<names, log, err, fnvars, xvars>>

SearchFails ==
    /\ pc \in {"search_await", "search_collect"}
    /\ Raise("CollaboratorError")
    /\ UNCHANGED <<names, env, fnvars, xvars>>

\* (mutant) the overlaps computed from what has arrived, the search not done
CellOverlaps_early ==
    /\ pc = "search_collect"
    /\ env' = [overlaps |-> Drain(get_overlap_shapes_utm(env.items, env.aoi_shape))] @@ env
    /\ log' = Append(log, "get_overlap_shapes_utm")
    /\ pc' = "show_overlap"
    /\ UNCHANGED <<names, pending, err, fnvars, xvars>>

\* (mutant) the new overlaps appended to the list an earlier run left
CellOverlaps_extend ==
    /\ pc = "overlaps"
    /\ env' = [overlaps |-> (IF "overlaps" \in DOMAIN env THEN env.overlaps ELSE << >>)
                            \o Drain(get_overlap_shapes_utm(env.item_list, env.aoi_shape))] @@ env
    /\ log' = Append(log, "get_overlap_shapes_utm")
    /\ pc' = "show_overlap"
    /\ UNCHANGED <<names, pending, err, fnvars, xvars>>

\* overlaps = list(get_overlap_shapes_utm(item_list, aoi_shape))
CellOverlaps ==
    /\ pc = "overlaps"
    /\ env' = [overlaps |-> Drain(get_overlap_shapes_utm(env.item_list, env.aoi_shape))] @@ env
    /\ log' = Append(log, "get_overlap_shapes_utm")
    /\ pc' = "show_overlap"
    /\ UNCHANGED <<names, pending, err, fnvars, xvars>>

\* display(overlaps[0])
CellShowOverlap ==
    /\ pc = "show_overlap"
    /\ IF env.overlaps = << >>
       THEN Raise("IndexError")
       ELSE pc' = "coverage_lowres" /\ UNCHANGED <<pending, log, err>>
    /\ UNCHANGED <<names, env, fnvars, xvars>>

\* display(calculate_coverage(overlaps, (6,3), aoi_shape_utm.bounds))
CellCoverageLowRes ==
    /\ pc = "coverage_lowres"
    /\ LET f == CoverageRun(calculate_coverage(env.overlaps, <<6, 3>>,
                                               BoundsUtm(env.aoi_shape_utm), names))
       IN  IF f.at = "raised"
           THEN /\ pc' = "aborted"
                /\ err' = f.error
                /\ log' = log \o <<"calculate_coverage", f.error>>
           ELSE /\ pc' = "plot"
                /\ log' = Append(log, "calculate_coverage")
                /\ UNCHANGED err
    /\ UNCHANGED <<names, env, pending, fnvars, xvars>>

\* plot_coverage(calculate_coverage(overlaps, dimensions, aoi_shape_utm.bounds))
CellPlot ==
    /\ pc = "plot"
    /\ LET f == CoverageRun(calculate_coverage(env.overlaps, env.dimensions,
                                               BoundsUtm(env.aoi_shape_utm), names))
       IN  IF f.at = "raised"
           THEN /\ pc' = "aborted"
                /\ err' = f.error
                /\ log' = log \o <<"calculate_coverage", f.error>>
                /\ UNCHANGED env
           ELSE /\ pc' = "demo_dims"
                /\ log' = Append(log, "calculate_coverage")
                /\ env' = [coverage |-> f.coverage, plot |-> plot_coverage(f.coverage)] @@ env
                /\ UNCHANGED err
    /\ UNCHANGED <<names, pending, fnvars, xvars>>

\* demo_aoi_shape = shape(test_aoi_geom), the same AOI again;
\* demo_dimensions = get_coverage_dimensions(demo_aoi_shape_utm)
CellDemoDims ==
    /\ pc = "demo_dims"
    /\ LET proj_fcn == get_utm_projection_fcn(env.aoi_shape)
           demo_aoi_shape_utm == Transform(proj_fcn, env.aoi_shape)
           d == get_coverage_dimensions(BoundsUtm(demo_aoi_shape_utm))
       IN  IF d.raised
           THEN Raise("DomainError") /\ UNCHANGED env
           ELSE /\ env' = [proj_fcn |-> proj_fcn, demo_dimensions |-> d.dims] @@ env
                /\ pc' = "search_2016"
                /\ UNCHANGED <<pending, log, err>>
    /\ UNCHANGED <<names, fnvars, xvars>>

\* the 2016 cell up to its await: the filters, then cl.search(..., limit=500)
CellSearch2016 ==
    /\ pc = "search_2016"
    /\ IF "data_filter" \notin names
       THEN Raise("NameError") /\ UNCHANGED env
       ELSE /\ env' = [combined_filter_2016 |-> "and_filter"] @@ env
            /\ log' = Append(log, "search")
            /\ pending' = "search"
            /\ pc' = "search_2016_await"
            /\ UNCHANGED err
    /\ UNCHANGED <<names, fnvars, xvars>>

\* what the narrower searches of the demonstration yield: footprints over the
\* left of the AOI and footprints that miss it
DemoItems == {[geometry |-> f] : f \in {FootLeft, FootFar}}

Search2016Responds ==
    /\ pc = "search_2016_await"
    /\ env' = [items |-> << >>] @@ env
    /\ pc' = "search_2016_collect"
    /\ UNCHANGED <<names, pending, log, err, fnvars, xvars>>

Search2016Yields ==
    /\ pc = "search_2016_collect"
    /\ Len(env.items) < MaxDemoItems
    /\ \E item \in DemoItems : env' = [items |-> Append(env.items, item)] @@ env
    /\ UNCHANGED <<pc, names, pending, log, err, fnvars, xvars>>

\* item_list_2016 = [...] is bound and the `async with` block is left
Search2016Returns ==
    /\ pc = "search_2016_collect"
    /\ env' = [item_list_2016 |-> env.items] @@ env
    /\ pending' = "none"
    /\ pc' = "overlaps_2016"
    /\ UNCHANGED <<names, log, err, fnvars, xvars>>

Search2016Fails ==
    /\ pc \in {"search_2016_await", "search_2016_collect"}
    /\ Raise("CollaboratorError")
    /\ UNCHANGED <<names, env, fnvars, xvars>>

\* the rest of the 2016 cell, after the block:
\* overlaps_2016 = list(get_overlap_shapes_utm(item_list_2016, aoi_shape))
CellOverlaps2016 ==
    /\ pc = "overlaps_2016"
    /\ env' = [overlaps_2016 |->
                  Drain(get_overlap_shapes_utm(env.item_list_2016, env.aoi_shape))] @@ env
    /\ log' = Append(log, "get_overlap_shapes_utm")
    /\ pc' = "plot_2016"
    /\ UNCHANGED <<names, pending, err, fnvars, xvars>>

\* plot_coverage(calculate_coverage(overlaps_2016, dimensions, aoi_shape_utm.bounds)).
\* The 2017 cells that follow repeat the 2016 cells with another date range.
CellPlot2016 ==
    /\ pc = "plot_2016"
    /\ LET f == CoverageRun(calculate_coverage(env.overlaps_2016, env.dimensions,
                                               BoundsUtm(env.aoi_shape_utm), names))
       IN  IF f.at = "raised"
           THEN /\ pc' = "aborted"
                /\ err' = f.error
                /\ log' = log \o <<"calculate_coverage", f.error>>
                /\ UNCHANGED env
           ELSE /\ pc' = "done"
                /\ log' = Append(log, "calculate_coverage")
                /\ env' = [coverage_2016 |-> f.coverage,
                           plot_2016 |-> plot_coverage(f.coverage)] @@ env
                /\ UNCHANGED err
    /\ UNCHANGED <<names, pending, fnvars, xvars>>

\* the cells of the coverage pipeline proper
PipelineNext ==
    \/ KernelStart
    \/ CellDefineAoi
    \/ CellRequest
    \/ CreateSearchReturns
    \/ CreateSearchFails
    \/ CellProject
    \/ CellDimensions
    \/ CellSearch
    \/ SearchResponds
    \/ SearchYields
    \/ SearchReturns
    \/ SearchFails
    \/ CellOverlaps
    \/ CellShowOverlap
    \/ CellCoverageLowRes
    \/ CellPlot

\* the cells of the demonstration that follows it
DemoNext ==
    \/ CellDemoDims
    \/ CellSearch2016
    \/ Search2016Responds
    \/ Search2016Yields
    \/ Search2016Returns
    \/ Search2016Fails
    \/ CellOverlaps2016
    \/ CellPlot2016

\* "Run All" once more in the same kernel, after the pipeline's last cell: the
\* globals stay; run1 records them as the first run left them
RunAllAgain ==
    /\ pc = "demo_dims"
    /\ run1 = NoCall
    /\ run1' = [fn |-> "Run All", env |-> env]
    /\ pc' = "define_aoi"
    /\ UNCHANGED <<names, env, pending, log, err, fnvars, ord, udm>>

\* q is an initial part of r
IsPrefix(q, r) == Len(q) <= Len(r) /\ \A k \in 1 .. Len(q) : q[k] = r[k]

\* the second run is given what the first was given: the same AOI, and a
\* catalog that yields the same items
SameInputs ==
    run1 # NoCall =>
        /\ env.aoi_shape = run1.env.aoi_shape
        /\ pc = "search_collect" => IsPrefix(env.items, run1.env.item_list)
        /\ pc = "overlaps" => env.item_list = run1.env.item_list

NotebookNext == PipelineNext \/ DemoNext

-----------------------------------------------------------------------------
(* The Orders notebook: create_poll_and_download                             *)
(* (src/jupyter-notebooks/orders_api_tutorials/Planet_SDK_Orders_demo.ipynb) *)

\* the request the cell run last left in `request`
OrderRequests == {"test_order_sdk_method_1", "test_order_sdk_method_2"}
\* the ids the service gives to new orders
OrderIds == {"order-a", "order-b", "order-c"}
\* the states wait reports to its callback: while the order runs, and at its end
RunningStates == {"queued", "running"}
FinalStates == {"success", "partial", "cancelled", "failed"}
\* polls of one wait that the model tells apart
MaxPolls == 2

Event(kind, op, id) == [kind |-> kind, op |-> op, id |-> id]

ordrest == <<fnvars, nbvars, run1, udm>>

\* await create_poll_and_download(): the session is entered, the status bar
\* is opened in state 'creating', create_order(request) is sent
OrdStart ==
    /\ ord = NoCall
    /\ \E request \in OrderRequests :
        ord' = [at |-> "create_await", request |-> request, session |-> "open",
                bar |-> [open |-> TRUE, state |-> "creating", order_id |-> "none"],
                order |-> "none", polls |-> 0,
                trace |-> <<Event("call", "create_order", request)>>]
    /\ UNCHANGED ordrest

\* create_order returns the order; bar.update(state='created', order_id=...);
\* then wait(order['id'], callback=bar.update_state) is sent
OrdCreateReturns ==
    /\ ord # NoCall
    /\ ord.at = "create_await"
    /\ \E id \in OrderIds :
        ord' = [ord EXCEPT !.at = "wait_await", !.order = id,
                           !.bar = [open |-> TRUE, state |-> "created", order_id |-> id],
                           !.trace = ord.trace \o <<Event("return", "create_order", id),
                                                    Event("bar", "created", id),
                                                    Event("call", "wait", id)>>]
    /\ UNCHANGED ordrest

\* an exception leaves both `with` blocks: the bar and the session are closed
OrdRaised(op) ==
    [ord EXCEPT !.at = "raised", !.session = "closed", !.bar.open = FALSE,
                !.trace = Append(ord.trace, Event("raise", op, ord.order))]

OrdCreateFails ==
    /\ ord # NoCall
    /\ ord.at = "create_await"
    /\ ord' = OrdRaised("create_order")
    /\ UNCHANGED ordrest

\* wait polls the order and hands its state to bar.update_state
OrdWaitPolls ==
    /\ ord # NoCall
    /\ ord.at = "wait_await"
    /\ ord.polls < MaxPolls
    /\ \E state \in RunningStates :
        ord' = [ord EXCEPT !.polls = ord.polls + 1, !.bar.state = state]
    /\ UNCHANGED ordrest

\* wait sees a final state and returns; the bar's block is left;
\* download_order(order['id']) is sent
OrdWaitReturns ==
    /\ ord # NoCall
    /\ ord.at = "wait_await"
    /\ \E state \in FinalStates :
        ord' = [ord EXCEPT !.at = "download_await",
                           !.bar = [open |-> FALSE, state |-> state, order_id |-> ord.order],
                           !.trace = ord.trace \o <<Event("return", "wait", ord.order),
                                                    Event("call", "download_order", ord.order)>>]
    /\ UNCHANGED ordrest

\* (mutant) a failure of wait is swallowed and the download goes ahead
OrdWaitFails_swallowed ==
    /\ ord # NoCall
    /\ ord.at = "wait_await"
    /\ ord' = [ord EXCEPT !.at = "download_await", !.bar.open = FALSE,
                           !.trace = ord.trace \o <<Event("raise", "wait", ord.order),
                                                    Event("call", "download_order", ord.order)>>]
    /\ UNCHANGED ordrest

OrdWaitFails ==
    /\ ord # NoCall
    /\ ord.at = "wait_await"
    /\ ord' = OrdRaised("wait")
    /\ UNCHANGED ordrest

OrdDownloadReturns ==
    /\ ord # NoCall
    /\ ord.at = "download_await"
    /\ ord' = [ord EXCEPT !.at = "done", !.session = "closed",
                           !.trace = Append(ord.trace, Event("return", "download_order", ord.order))]
    /\ UNCHANGED ordrest

OrdDownloadFails ==
    /\ ord # NoCall
    /\ ord.at = "download_await"
    /\ ord' = OrdRaised("download_order")
    /\ UNCHANGED ordrest

OrdersNext ==
    \/ OrdStart
    \/ OrdCreateReturns
    \/ OrdCreateFails
    \/ OrdWaitPolls
    \/ OrdWaitReturns
    \/ OrdWaitFails
    \/ OrdDownloadReturns
    \/ OrdDownloadFails

-----------------------------------------------------------------------------
(* The UDM2 notebook: activation, the polling loop, the downloads            *)
(* (src/jupyter-notebooks/udm2/udm2_clouds.ipynb)                            *)

AssetTypes == {"ortho_analytic_4b", "ortho_udm2"}

\* `client = Auth.from_key(API_KEY)`.  The cells below call get_assets_by_id,
\* activate and download on it, the methods of the SDK's version-1 client.
\* What the SDK's Auth object offers is not this repository's to say: an
\* object with those methods and an object without them are both tried.
ClientKinds == {"Auth", "ClientV1"}

\* time.sleep(10)
sleep_seconds == 10
\* rounds of the loop whose sleeps the model tells apart
MaxSleeps == 3

udmrest == <<fnvars, nbvars, run1, ord>>

\* what get_assets_by_id(...).get() returns: an asset has a 'location' once it
\* is active
AssetsOf(server) == [a \in AssetTypes |-> [location |-> server[a] = "active"]]

\* the cells before the activation cell have run.  `api` is a name the
\* notebook never binds; the kernel may.
UdmSetup ==
    /\ udm = NoCall
    /\ \E client \in ClientKinds, bound \in SUBSET {"api"},
          server \in [AssetTypes -> {"inactive", "active"}] :
        udm' = [at |-> "activate", client |-> client, names |-> bound, server |-> server,
                assets |-> [a \in AssetTypes |-> [location |-> FALSE]],
                printed |-> FALSE, waited |-> 0, downloads |-> {}, error |-> "none"]
    /\ UNCHANGED udmrest

UdmRaised(e) == [udm EXCEPT !.at = "raised", !.error = e]

\* assets = client.get_assets_by_id("PSScene", item_id).get();
\* client.activate(...) for both assets
UdmActivate ==
    /\ udm # NoCall
    /\ udm.at = "activate"
    /\ udm' = IF udm.client = "Auth" THEN UdmRaised("AttributeError")
              ELSE [udm EXCEPT !.at = "loop_get",
                               !.assets = AssetsOf(udm.server),
                               !.server = [a \in AssetTypes |->
                                             IF udm.server[a] = "inactive" THEN "activating"
                                             ELSE udm.server[a]]]
    /\ UNCHANGED udmrest

\* the service finishes the activation of one asset
ServerActivates ==
    /\ udm # NoCall
    /\ \E a \in AssetTypes :
        /\ udm.server[a] = "activating"
        /\ udm' = [udm EXCEPT !.server[a] = "active"]
    /\ UNCHANGED udmrest

\* while True: assets = client.get_assets_by_id("PSScene", item_id).get()
UdmPoll ==
    /\ udm # NoCall
    /\ udm.at = "loop_get"
    /\ udm' = [udm EXCEPT !.at = "loop_test", !.assets = AssetsOf(udm.server)]
    /\ UNCHANGED udmrest

\* (mutant) `or` in place of `and`
UdmTest_either ==
    /\ udm # NoCall
    /\ udm.at = "loop_test"
    /\ udm' = IF udm.assets["ortho_analytic_4b"].location \/ udm.assets["ortho_udm2"].location
              THEN [udm EXCEPT !.at = "exited", !.printed = TRUE]
              ELSE [udm EXCEPT !.at = "sleep"]
    /\ UNCHANGED udmrest

\* if "location" in assets["ortho_analytic_4b"] and "location" in
\* assets["ortho_udm2"]: print('assets activated'); break
UdmTest ==
    /\ udm # NoCall
    /\ udm.at = "loop_test"
    /\ udm' = IF udm.assets["ortho_analytic_4b"].location /\ udm.assets["ortho_udm2"].location
              THEN [udm EXCEPT !.at = "exited", !.printed = TRUE]
              ELSE [udm EXCEPT !.at = "sleep"]
    /\ UNCHANGED udmrest

\* time.sleep(10), then the next round
UdmSleep ==
    /\ udm # NoCall
    /\ udm.at = "sleep"
    /\ udm' = [udm EXCEPT !.at = "loop_get",
                           !.waited = Min(udm.waited + sleep_seconds, sleep_seconds * MaxSleeps)]
    /\ UNCHANGED udmrest

\* r1 = client.download(assets["ortho_analytic_4b"], callback=api.write_to_file(data_dir))
\* r2 = client.download(assets["ortho_udm2"], callback=api.write_to_file(data_dir))
UdmStartDownloads ==
    /\ udm # NoCall
    /\ udm.at = "exited"
    /\ udm' = IF "api" \notin udm.names THEN UdmRaised("NameError")
              ELSE [udm EXCEPT !.at = "downloading", !.downloads = AssetTypes]
    /\ UNCHANGED udmrest

\* r1.wait(); r2.wait()
UdmWaitDownloads ==
    /\ udm # NoCall
    /\ udm.at = "downloading"
    /\ udm' = [udm EXCEPT !.at = "downloaded"]
    /\ UNCHANGED udmrest

\* the steps the kernel takes
UdmProgram ==
    \/ UdmSetup
    \/ UdmActivate
    \/ UdmPoll
    \/ UdmTest
    \/ UdmSleep
    \/ UdmStartDownloads
    \/ UdmWaitDownloads

UdmNext == UdmProgram \/ ServerActivates

-----------------------------------------------------------------------------
Init ==
    /\ zcall = NoCall
    /\ pcall = NoCall
    /\ dcall = NoCall
    /\ ogen = NoCall
    /\ olist = << >>
    /\ cov = NoCall
    /\ pc = "kernel"
    /\ names = {}
    /\ env = << >>
    /\ pending = "none"
    /\ log = << >>
    /\ err = "none"
    /\ run1 = NoCall
    /\ ord = NoCall
    /\ udm = NoCall

\* the notebook run from its first cell to its last
Spec == Init /\ [][NotebookNext]_vars

\* the pipeline run twice in one kernel on the same inputs
SpecRerun == Init /\ [][(PipelineNext \/ RunAllAgain) /\ SameInputs']_vars

\* create_poll_and_download of the Orders notebook
SpecOrders == Init /\ [][OrdersNext]_vars

\* the UDM2 notebook's activation and download cells: a kernel that is running
\* a cell goes on running it; the service activates assets when it pleases
SpecUdm2 == Init /\ [][UdmNext]_vars /\ WF_vars(UdmProgram)

\* single calls of the notebook's functions
SpecZone == Init /\ [][CallZone]_vars
SpecDims == Init /\ [][CallDims]_vars
SpecProj == Init /\ [][CallProjectionPair]_vars
SpecOverlap == Init /\ [][CallOverlaps \/ OverlapNext]_vars
SpecCoverage == Init /\ [][CallCoverage \/ CoverageNext]_vars

\* accumulation over the longest results a search can give
SpecCapped ==
    Init /\ [][CallCappedOverlaps \/ OverlapNext \/ CallCappedCoverage \/ CoverageNext]_vars

\* sizing and accumulation over square AOIs given in meters
SpecScenario == Init /\ [][CallScenario \/ CoverageNext]_vars

-----------------------------------------------------------------------------
(* Grid sizing: C1, C2, C3 (under SpecDims) *)

DimsCalled == dcall # NoCall
DimsWidth == dcall.bounds[3] - dcall.bounds[1]
DimsHeight == dcall.bounds[4] - dcall.bounds[2]

\* C1: a 27 m x 27 m box is sized, with both dimensions at least 3; a box whose
\* height or width is 26 m raises instead of returning dimensions.
C1_ThresholdSizing ==
    DimsCalled =>
        /\ (DimsWidth = 27 /\ DimsHeight = 27) =>
                /\ ~dcall.out.raised
                /\ dcall.out.dims[1] >= 3
                /\ dcall.out.dims[2] >= 3
        /\ (DimsWidth = 26 \/ DimsHeight = 26) =>
                /\ dcall.out.raised
                /\ "dims" \notin DOMAIN dcall.out

C1_Witness ==
    /\ DimsCalled
    /\ DimsWidth = 27 /\ DimsHeight = 27
    /\ ~dcall.out.raised

\* C2: whenever get_coverage_dimensions returns, both dimensions lie in 3 .. 3000.
C2_DimsWithinLimits ==
    (DimsCalled /\ ~dcall.out.raised) =>
        /\ dcall.out.dims[1] \in 3 .. 3000
        /\ dcall.out.dims[2] \in 3 .. 3000

\* a box higher than 3000 cells of 9 m, so that the cap is what bounds the rows
C2_Witness ==
    /\ DimsCalled
    /\ DimsHeight > 9 * 3000 + 9
    /\ ~dcall.out.raised
    /\ dcall.out.dims[1] = 3000

\* C3: for height and width both >= 27 m the result is <<rows, cols>> with
\* rows = min(floor(height/9), 3000) and cols = min(floor(width/9), 3000);
\* a 50 km x 50 km box yields <<3000, 3000>>.
C3_DimsFormula ==
    (DimsCalled /\ DimsHeight >= 27 /\ DimsWidth >= 27) =>
        /\ ~dcall.out.raised
        /\ dcall.out.dims = << Min(DimsHeight \div 9, 3000), Min(DimsWidth \div 9, 3000) >>
        /\ (DimsHeight = 50000 /\ DimsWidth = 50000) => dcall.out.dims = <<3000, 3000>>

C3_Witness ==
    /\ DimsCalled
    /\ DimsHeight = 50000 /\ DimsWidth = 50000
    /\ dcall.out = [raised |-> FALSE, dims |-> <<3000, 3000>>]

-----------------------------------------------------------------------------
(* Zone selection: C4, C5 (under SpecZone) *)

ZoneCalled == zcall # NoCall

\* C4: for a centroid latitude strictly between -80 and 84 and any longitude in
\* [-180, 180], _get_utm_zone returns a zone in 1 .. 60 and a hemisphere that
\* is 'north' or 'south'.
C4_ZoneInRange ==
    (ZoneCalled /\ LatWithin(zcall.lat, -80, 84, TRUE)) =>
        /\ ~zcall.out.raised
        /\ zcall.out.zone \in 1 .. 60
        /\ zcall.out.hemisphere \in {"north", "south"}

\* the case that breaks C4: a centroid on the 180th meridian
C4_Witness ==
    /\ ZoneCalled
    /\ zcall.lon = 180 * DegDen
    /\ ~zcall.out.raised
    /\ zcall.out.zone = 61

\* C5: _get_utm_zone raises, and returns no (zone, hemisphere), for every
\* latitude outside [-80, 84], and raises for no latitude inside it.
C5_ZoneDomain ==
    ZoneCalled =>
        IF LatWithin(zcall.lat, -80, 84, FALSE)
        THEN /\ ~zcall.out.raised
             /\ {"zone", "hemisphere"} \subseteq DOMAIN zcall.out
        ELSE /\ zcall.out.raised
             /\ DOMAIN zcall.out = {"raised"}

\* a call at the endpoint 84 that returns
C5_Witness ==
    /\ ZoneCalled
    /\ zcall.lat = 84 * DegDen
    /\ ~zcall.out.raised

-----------------------------------------------------------------------------
(* Projection selection: C6 (under SpecProj) *)

ProjCalled == pcall # NoCall

\* the projected system the centroid's UTM zone and hemisphere name
CentroidEpsg(c) ==
    LET z == get_utm_zone(c[1], c[2]) IN UtmEpsg(z.zone, z.hemisphere)

\* C6: the transform returned by get_utm_projection_fcn(geom) targets the UTM
\* zone and hemisphere of the centroid of geom, so geometries whose centroids
\* fall in different zones receive different target projections.
C6_ProjectionFromCentroid ==
    ProjCalled =>
        /\ pcall.out1.dst = CentroidEpsg(pcall.c1)
        /\ pcall.out2.dst = CentroidEpsg(pcall.c2)
        /\ ZoneNumber(pcall.c1[1]) # ZoneNumber(pcall.c2[1]) => pcall.out1 # pcall.out2

\* two centroids in different zones that received the same transform
C6_Witness ==
    /\ ProjCalled
    /\ ZoneNumber(pcall.c1[1]) # ZoneNumber(pcall.c2[1])
    /\ pcall.out1 = pcall.out2

-----------------------------------------------------------------------------
(* Overlap calculator: C8, C9 (under SpecOverlap) *)

\* the projected AOI of the running overlap call
OverlapAoiUtm == Transform(get_utm_projection_fcn(ogen.aoi_shape), ogen.aoi_shape)
\* the k-th item's projected footprint
OverlapFootUtm(k) ==
    Transform(get_utm_projection_fcn(ogen.aoi_shape), ogen.items[k].geometry)

\* C8: the generator yields one overlap per item, in the order of the items,
\* empty overlaps included; the k-th is the projected AOI intersected with the
\* k-th item's projected footprint.
C8_OneOverlapPerItem ==
    ogen # NoCall =>
        /\ Len(olist) = ogen.i
        /\ Len(olist) <= Len(ogen.items)
        /\ \A k \in 1 .. Len(olist) : olist[k] = OverlapAoiUtm \cap OverlapFootUtm(k)
        /\ ogen.at = "exhausted" => Len(olist) = Len(ogen.items)

\* a finished call over several items in which a non-meeting item, not the
\* last one, got its empty overlap
C8_Witness ==
    /\ ogen # NoCall
    /\ ogen.at = "exhausted"
    /\ Len(olist) = MaxItems
    /\ olist[1] = {} /\ olist[2] # {}

\* C9: an item whose footprint is the AOI yields an overlap with the area of
\* the projected AOI; an item whose footprint is disjoint from the AOI yields
\* an empty overlap.
C9_SelfAndDisjoint ==
    ogen # NoCall =>
        \A k \in 1 .. Len(olist) :
            /\ ogen.items[k].geometry = ogen.aoi_shape
                    => AreaUtm(olist[k]) = AreaUtm(OverlapAoiUtm)
            /\ ogen.items[k].geometry \cap ogen.aoi_shape = {} => olist[k] = {}

C9_Witness ==
    /\ ogen # NoCall
    /\ Len(olist) >= 2
    /\ ogen.items[1].geometry = ogen.aoi_shape /\ olist[1] # {}
    /\ ogen.items[2].geometry \cap ogen.aoi_shape = {} /\ olist[2] = {}

-----------------------------------------------------------------------------
(* Coverage rasterizer: C10 (under SpecCoverage) *)

AllEmpty(overlaps) == \A k \in 1 .. Len(overlaps) : overlaps[k] = {}

\* C10: over zero overlaps, or over empty overlaps only, calculate_coverage
\* returns a grid of the requested dimensions with 0 in every cell; a round of
\* the loop over an empty overlap leaves the running grid as it was.
C10_EmptyOverlapsAddNothing ==
    [][ /\ (cov # NoCall /\ cov.at = "loop" /\ cov.k < Len(cov.overlaps)
                /\ cov.overlaps[cov.k + 1] = {})
            => (cov'.at = "loop" /\ cov'.coverage = cov.coverage)
        /\ (cov' # NoCall /\ cov'.at # "loop" /\ AllEmpty(cov'.overlaps))
            => /\ cov'.at = "returned"
               /\ DOMAIN cov'.coverage = GridCells(cov'.dimensions)
               /\ \A rc \in GridCells(cov'.dimensions) : cov'.coverage[rc] = 0
      ]_vars

\* a call over several overlaps, all empty, that has returned
C10_Witness ==
    /\ cov # NoCall
    /\ cov.at = "returned"
    /\ Len(cov.overlaps) >= 2
    /\ AllEmpty(cov.overlaps)
    /\ cov.coverage = Zeros(cov.dimensions)

-----------------------------------------------------------------------------
(* Fail-fast: C7 (under Spec) *)

Logged(e) == \E k \in 1 .. Len(log) : log[k] = e

\* C7: a run that ends in a domain error (latitude out of range, AOI below the
\* minimum size) has issued no catalog call (create_search, search) and has
\* attempted no rasterization.
C7_DomainErrorBeforeCatalog ==
    err = "DomainError" =>
        /\ ~Logged("create_search")
        /\ ~Logged("search")
        /\ ~Logged("calculate_coverage")

\* the run the claim is about: the AOI is too small, and create_search was
\* already issued when get_coverage_dimensions raised
C7_Witness ==
    /\ pc = "aborted"
    /\ err = "DomainError"
    /\ log = <<"create_search", "DomainError">>

-----------------------------------------------------------------------------
(* Coverage rasterizer: C11, C12, C13 (under SpecCoverage) *)

CovCalled == cov # NoCall
CovEnded == CovCalled /\ cov.at # "loop"

\* the overlaps of the call are one or more copies of the projected AOI whose
\* bounding box the grid is aligned to
CovCopiesOfAoi ==
    /\ CovCalled
    /\ Len(cov.overlaps) >= 1
    /\ \E aoi_shape \in AoiShapes :
        LET aoi_shape_utm == Transform(get_utm_projection_fcn(aoi_shape), aoi_shape)
        IN  /\ BoundsUtm(aoi_shape_utm) = cov.bounds
            /\ \A k \in 1 .. Len(cov.overlaps) : cov.overlaps[k] = aoi_shape_utm

\* C11: accumulating the overlaps of N >= 1 footprints identical to the AOI
\* yields a grid in which every cell equals N.
C11_NCopiesGiveN ==
    (CovEnded /\ CovCopiesOfAoi) =>
        /\ cov.at = "returned"
        /\ \A rc \in GridCells(cov.dimensions) : cov.coverage[rc] = Len(cov.overlaps)

\* the call on copies of the AOI that ends in NameError: sgeom is not bound
C11_Witness ==
    /\ CovEnded /\ CovCopiesOfAoi
    /\ cov.at = "raised"
    /\ cov.error = "NameError"

\* the number of non-empty overlaps among the first k
RECURSIVE NonEmptyCount(_, _)
NonEmptyCount(overlaps, k) ==
    IF k = 0 THEN 0
    ELSE NonEmptyCount(overlaps, k - 1) + (IF overlaps[k] = {} THEN 0 ELSE 1)

\* C12: each round of the loop adds 0 or 1 to each cell, and every cell stays
\* between 0 and the number of non-empty overlaps processed so far.
C12_CellsCountOverlaps ==
    [][ cov' # NoCall =>
          /\ \A rc \in GridCells(cov'.dimensions) :
                cov'.coverage[rc] \in 0 .. NonEmptyCount(cov'.overlaps, cov'.k)
          /\ cov # NoCall =>
                \A rc \in GridCells(cov.dimensions) :
                    cov'.coverage[rc] - cov.coverage[rc] \in {0, 1}
      ]_vars

\* a returned grid with a cell every overlap covered and a cell none covered
C12_Witness ==
    /\ CovCalled
    /\ cov.at = "returned"
    /\ NonEmptyCount(cov.overlaps, Len(cov.overlaps)) >= 2
    /\ \E rc \in GridCells(cov.dimensions) :
            cov.coverage[rc] = NonEmptyCount(cov.overlaps, Len(cov.overlaps))
    /\ \E rc \in GridCells(cov.dimensions) : cov.coverage[rc] = 0

\* the list with the entries at positions j and j + 1 exchanged
SwapAdjacent(q, j) ==
    [k \in 1 .. Len(q) |-> IF k = j THEN q[j + 1] ELSE IF k = j + 1 THEN q[j] ELSE q[k]]

\* C13: the grid calculate_coverage returns is the same for every order of the
\* same overlaps.  Every permutation is a product of exchanges of neighbours,
\* and every list of the model is tried, so the exchanges are what is compared.
C13_OrderIndependent ==
    (CovCalled /\ cov.at = "returned") =>
        \A j \in 1 .. (Len(cov.overlaps) - 1) :
            LET other == CoverageRun(calculate_coverage(SwapAdjacent(cov.overlaps, j),
                                                        cov.dimensions, cov.bounds, cov.names))
            IN  /\ other.at = "returned"
                /\ other.coverage = cov.coverage

\* a returned call over overlaps that differ and are not empty
C13_Witness ==
    /\ CovCalled
    /\ cov.at = "returned"
    /\ Len(cov.overlaps) >= 2
    /\ cov.overlaps[1] # {} /\ cov.overlaps[2] # {}
    /\ cov.overlaps[1] # cov.overlaps[2]
    /\ \E rc \in GridCells(cov.dimensions) : cov.coverage[rc] = 1

-----------------------------------------------------------------------------
(* The 1000 m square: C15 (under SpecScenario) *)

Aoi1000 == SquareBounds(1000)
Whole1000 == BoxOverlap(Aoi1000, FootBoxWhole(1000))
Left1000 == BoxOverlap(Aoi1000, FootBoxLeft(1000))

\* the call for the 1000 m square with the footprint over all of it and the
\* footprint over its left half
Cov1000 ==
    /\ CovCalled
    /\ cov.bounds = Aoi1000
    /\ cov.overlaps \in {<<Whole1000, Left1000>>, <<Left1000, Whole1000>>}

\* column c of the grid lies wholly left (right) of the middle of the AOI
ColInLeftHalf(c) == 2 * (c + 1) <= cov.dimensions[2]
ColInRightHalf(c) == 2 * c >= cov.dimensions[2]

Grid1000 ==
    /\ cov.dimensions = <<111, 111>>
    /\ \A rc \in GridCells(cov.dimensions) :
        /\ ColInLeftHalf(rc[2]) => cov.coverage[rc] = 2
        /\ ColInRightHalf(rc[2]) => cov.coverage[rc] = 1
        /\ cov.coverage[rc] \in {1, 2}

\* C15: for the 1000 m x 1000 m AOI the grid is 111 x 111, every cell of the
\* left half is 2 and every cell of the right half is 1 (minimum 1, maximum 2).
C15_HalfCoveredSquare ==
    (Cov1000 /\ CovEnded) => (cov.at = "returned" /\ Grid1000)

\* the call for the 1000 m square that ends in NameError
C15_Witness ==
    /\ Cov1000
    /\ cov.dimensions = <<111, 111>>
    /\ cov.at = "raised"
    /\ cov.error = "NameError"

\* what the call gives in a kernel that binds sgeom
C15_GridWhenReturned == (Cov1000 /\ cov.at = "returned") => Grid1000
C15_ReturnedReached == ~(Cov1000 /\ cov.at = "returned")

-----------------------------------------------------------------------------
(* The accumulator's width: C19 (under SpecCapped) *)

\* how many of the overlaps cover the centre of cell rc
TrueCount(overlaps, dimensions, bounds, rc) ==
    Cardinality({k \in 1 .. Len(overlaps) :
                    \E sq \in overlaps[k] : CentreInPiece(sq, rc, dimensions, bounds)})

\* C19: a search yields at most 500 items, so no cell of the uint16 grid ever
\* exceeds 500, the sum never wraps modulo 2^16, and each cell of the returned
\* grid is the number of overlaps rasterized onto it.
C19_NoWrap ==
    CovCalled =>
        /\ Len(cov.overlaps) <= search_limit
        /\ \A rc \in GridCells(cov.dimensions) : cov.coverage[rc] <= search_limit
        /\ cov.at = "returned" =>
              \A rc \in GridCells(cov.dimensions) :
                  cov.coverage[rc] = TrueCount(cov.overlaps, cov.dimensions, cov.bounds, rc)

\* a returned grid with a cell that all 500 overlaps cover
C19_Witness ==
    /\ CovCalled
    /\ cov.at = "returned"
    /\ Len(cov.overlaps) = search_limit
    /\ \E rc \in GridCells(cov.dimensions) : cov.coverage[rc] = search_limit

-----------------------------------------------------------------------------
(* Catalog requests and the computation on their results: C16 (under Spec) *)

CatalogCalls == {"create_search", "search"}
ComputeCalls == {"get_overlap_shapes_utm", "calculate_coverage"}

\* the item list the cell about to run reads is all the search yielded
ItemListMaterialized ==
    \/ pc = "overlaps" /\ "item_list" \in DOMAIN env /\ env.item_list = env.items
    \/ pc = "overlaps_2016" /\ "item_list_2016" \in DOMAIN env
                            /\ env.item_list_2016 = env.items

\* C16: get_overlap_shapes_utm and calculate_coverage are called only while no
\* catalog request is pending, get_overlap_shapes_utm only once the search
\* result has been collected to its end, and a catalog request is issued only
\* while none is pending.
C16_SearchBeforeOverlaps ==
    [][ \A i \in (Len(log) + 1) .. Len(log') :
          /\ log'[i] \in ComputeCalls => (pending = "none" /\ pending' = "none")
          /\ log'[i] = "get_overlap_shapes_utm" => ItemListMaterialized
          /\ log'[i] \in CatalogCalls => pending = "none"
      ]_vars

\* a run through both searches, each with items, and both overlap lists
C16_Witness ==
    /\ pc = "plot_2016"
    /\ Len(env.item_list) >= 2
    /\ Len(env.item_list_2016) = MaxDemoItems
    /\ Len(env.overlaps_2016) = Len(env.item_list_2016)
    /\ pending = "none"

-----------------------------------------------------------------------------
(* Two runs of the pipeline in one kernel: C14 (under SpecRerun) *)

\* C14: the second run of the pipeline on the same AOI and the same item list
\* ends as the first did, with the same overlaps, dimensions and coverage
\* grid, whatever globals the first run left behind.
C14_RerunSameGrid ==
    (run1 # NoCall /\ pc \in {"demo_dims", "aborted"}) =>
        \/ /\ pc = "demo_dims"
           /\ env.overlaps = run1.env.overlaps
           /\ env.dimensions = run1.env.dimensions
           /\ env.coverage = run1.env.coverage
           /\ env.plot = run1.env.plot
        \/ pc = "aborted" /\ err = "CollaboratorError"

\* a second run that ended, over a grid that is not all zero
C14_Witness ==
    /\ run1 # NoCall
    /\ pc = "demo_dims"
    /\ Len(env.item_list) >= 2
    /\ \E rc \in DOMAIN env.coverage : env.coverage[rc] >= 2
    /\ \E rc \in DOMAIN env.coverage : env.coverage[rc] = 0

-----------------------------------------------------------------------------
(* create_poll_and_download: C17 (under SpecOrders) *)

\* the events of a run in which nothing fails
FullTrace(request, id) ==
    << Event("call", "create_order", request),
       Event("return", "create_order", id),
       Event("bar", "created", id),
       Event("call", "wait", id),
       Event("return", "wait", id),
       Event("call", "download_order", id),
       Event("return", "download_order", id) >>

\* C17: create_order, then wait, then download_order, each on the id that
\* create_order returned; the bar shows 'created' and the id only once
\* create_order has returned; a failure ends the run where it happens, so
\* download_order is not called after create_order or wait has failed.
C17_CreateWaitDownload ==
    ord # NoCall =>
        LET t == ord.trace
            n == Len(t)
            failed == t[n].kind = "raise"
            body == IF failed THEN SubSeq(t, 1, n - 1) ELSE t
        IN  /\ \E id \in OrderIds : IsPrefix(body, FullTrace(ord.request, id))
            /\ failed => (body[Len(body)].kind = "call" /\ body[Len(body)].op = t[n].op)
            /\ failed <=> ord.at = "raised"
            /\ ord.bar.order_id # "none" => ord.bar.order_id = ord.order /\ ord.order \in OrderIds
            /\ ord.at = "create_await" => ord.bar = [open |-> TRUE, state |-> "creating",
                                                    order_id |-> "none"]

\* a run to the end of the download, after as many polls as the model counts
C17_Witness ==
    /\ ord # NoCall
    /\ ord.at = "done"
    /\ ord.polls = MaxPolls
    /\ ord.trace = FullTrace(ord.request, ord.order)

\* a run that a failure of wait ended is reached too
C17_FailureReached ==
    ~(ord # NoCall /\ ord.at = "raised"
        /\ ord.trace[Len(ord.trace)] = Event("raise", "wait", ord.order))

-----------------------------------------------------------------------------
(* The activation loop: C18 (under SpecUdm2) *)

UdmBothActive == udm # NoCall /\ \A a \in AssetTypes : udm.server[a] = "active"
UdmLoopExited == udm # NoCall /\ udm.printed

\* the loop is left only on a response in which both assets have a location
C18_ExitsOnlyWhenBoth ==
    UdmLoopExited => \A a \in AssetTypes : udm.assets[a].location /\ udm.server[a] = "active"

\* a download is started only once the loop has been left
C18_DownloadsAfterLoop ==
    (udm # NoCall /\ udm.downloads # {}) => UdmLoopExited

\* C18: the loop exits only when both assets report a location, downloads
\* start only after the loop has exited, and once both assets are active the
\* loop eventually exits.
C18_ActivationLoop ==
    /\ []C18_ExitsOnlyWhenBoth
    /\ []C18_DownloadsAfterLoop
    /\ (UdmBothActive ~> UdmLoopExited)

\* both assets are active, and the activation cell has ended in AttributeError
C18_Witness ==
    /\ UdmBothActive
    /\ udm.at = "raised"
    /\ udm.error = "AttributeError"
    /\ ~udm.printed

\* with a client that has the version-1 methods the loop does exit
C18_ExitsWithClientV1 ==
    (UdmBothActive /\ udm.client = "ClientV1") ~> UdmLoopExited

\* the two safety parts, with the witness of the loop left after sleeping
C18_Safety == C18_ExitsOnlyWhenBoth /\ C18_DownloadsAfterLoop
C18_ExitReached == ~(UdmLoopExited /\ udm.waited >= sleep_seconds /\ udm.downloads # {})

=============================================================================
